---- MODULE Spec2Model ----
(***************************************************************************)
(* Verification model of the pre-split data preparation pipeline           *)
(* (scripts/03_pre_split_prep) and of the target feasibility check of      *)
(* scripts/02_data_understanding.                                          *)
(*                                                                         *)
(* A pandas DataFrame is a record [index |-> <<labels>>, cols |-> f]       *)
(* where f maps a column name to the sequence of that column's cells.      *)
(* A cell is an exact rational <<numerator, denominator>> in lowest terms  *)
(* with a positive denominator; NaN is <<0, 0>>.                           *)
(***************************************************************************)
EXTENDS Integers, Sequences, FiniteSets, TLC

VARIABLES
    gt_pc,      \* generate_targets: "call" | "returned"
    gt_df,      \* generate_targets: the table passed in
    gt_out,     \* generate_targets: the table returned
    sp_pc,      \* split_data: "call" | "checked" | "wrote_train" | "wrote_val"
                \*             | "returned" | "raised"
    sp_df,      \* split_data: the cleaned table passed in
    sp_params,  \* split_data: what conf/params.yaml holds
    sp_train,   \* split_data: local train
    sp_val,     \* split_data: local val
    sp_test,    \* split_data: local test
    sp_files,   \* split_data: the parquet files this call has written
    sp_exc,     \* split_data: the exception raised, "none" if none
    sp_ret,     \* split_data: the returned tuple, <<>> if nothing returned
    du_pc,      \* 02_data_understanding: "call" | "checked" | "visualized"
    du_close,   \* 02_data_understanding: the QQQ close column
    du_trend,   \* check_target_variable_feasibility: trend_direction per window
    du_results, \* check_target_variable_feasibility: results per window
    du_gt,      \* create_visualizations: the .gt() column per window
    du_up,      \* create_visualizations: upward_percentage per window
    pl_pc,      \* main: the stage reached, per the comments of main
    pl_raw,     \* main: dfs_raw, the aligned bars, per run and symbol
    pl_df,      \* main: df_final, per run
    pl_prev,    \* main: the table the last stage was given, per run
    pl_arg,     \* main: that same table object once the stage has returned
    pl_mut,     \* the first row at which the raw bars of the two runs differ
    mn_pc,      \* main from its start: "start" | "loaded" | "merged" | "cross"
                \*   | "targets" | "outliers_removed" | "cleaned" | "stats_saved"
                \*   | "returned" | "raised"
    mn_files,   \* data/raw: the timestamps of each symbol's file that exists
    mn_dfs,     \* main: dfs_raw, the list of (symbol, aligned table)
    mn_df,      \* main: df_final
    mn_out,     \* main: the files written so far
    mn_exc,     \* main: the exception that ended the run, "none" if none
    ac_pc,      \* 01_data_acquisition: "loop" | "done"
    ac_i,       \* 01_data_acquisition: how many of TICKERS have been handled
    ac_files    \* 01_data_acquisition: the timestamp column of each file written

gt_vars == <<gt_pc, gt_df, gt_out>>
sp_vars == <<sp_pc, sp_df, sp_params, sp_train, sp_val, sp_test, sp_files,
             sp_exc, sp_ret>>
du_vars == <<du_pc, du_close, du_trend, du_results, du_gt, du_up>>
pl_vars == <<pl_pc, pl_raw, pl_df, pl_prev, pl_arg, pl_mut>>
mn_vars == <<mn_pc, mn_files, mn_dfs, mn_df, mn_out, mn_exc>>
ac_vars == <<ac_pc, ac_i, ac_files>>
vars == <<gt_vars, sp_vars, du_vars, pl_vars, mn_vars, ac_vars>>

(***************************************************************************)
(* Bounds of the model.                                                    *)
(***************************************************************************)
MaxRows == 33
Period == 4
MaxDay == 4

MaxBars == 3
CrossRows == 16
FeatureRows == 62
CleanRows == 3
PipeRows == 94

(***************************************************************************)
(* Exact arithmetic on cells (float64 NaN semantics, no rounding).         *)
(***************************************************************************)
NaN == <<0, 0>>

IsNaN(v) == v[2] = 0

NotNa(v) == v[2] # 0

Abs(n) == IF n < 0 THEN -n ELSE n

RECURSIVE GCD(_, _)
GCD(a, b) == IF b = 0 THEN a ELSE GCD(b, a % b)

Norm(n, d) ==
    IF d = 0 THEN NaN
    ELSE LET g == GCD(Abs(n), Abs(d))
             s == IF d < 0 THEN -1 ELSE 1
         IN  <<(s * n) \div g, (s * d) \div g>>

Num(n) == <<n, 1>>

FSub(a, b) ==
    IF IsNaN(a) \/ IsNaN(b) THEN NaN
    ELSE Norm(a[1] * b[2] - b[1] * a[2], a[2] * b[2])

\* a / b; the only zero divisor the inputs of the model produce is 0/0 = NaN
FDiv(a, b) ==
    IF IsNaN(a) \/ IsNaN(b) THEN NaN
    ELSE Norm(a[1] * b[2], a[2] * b[1])

\* comparisons with NaN are False
FLe(a, b) == NotNa(a) /\ NotNa(b) /\ a[1] * b[2] <= b[1] * a[2]

FGt(a, b) == NotNa(a) /\ NotNa(b) /\ a[1] * b[2] > b[1] * a[2]

(***************************************************************************)
(* pandas primitives.                                                      *)
(***************************************************************************)
\* Series.shift(periods): row i takes the cell of row i - periods, NaN
\* where that row does not exist
Shift(s, periods) ==
    [i \in 1..Len(s) |->
        IF i - periods >= 1 /\ i - periods <= Len(s) THEN s[i - periods] ELSE NaN]

SeriesSub(a, b) == [i \in 1..Len(a) |-> FSub(a[i], b[i])]

SeriesDiv(a, b) == [i \in 1..Len(a) |-> FDiv(a[i], b[i])]

\* df[name] = series (adds the column or replaces it)
SetCol(df, name, series) ==
    [df EXCEPT !.cols = (name :> series) @@ df.cols]

\* df.iloc[:-k] for k > 0: Python slice semantics, empty when len(df) <= k
IlocDropTail(df, k) ==
    LET n == IF Len(df.index) > k THEN Len(df.index) - k ELSE 0
    IN  [index |-> SubSeq(df.index, 1, n),
         cols  |-> [c \in DOMAIN df.cols |-> SubSeq(df.cols[c], 1, n)]]

EmptyDf == [index |-> <<>>, cols |-> <<>>]

(***************************************************************************)
(* 03_targets.py: generate_targets                                         *)
(***************************************************************************)
target_windows == <<5, 15, 30>>

TargetCol(window) ==
    CASE window = 5  -> "target_5m"
      [] window = 15 -> "target_15m"
      [] window = 30 -> "target_30m"

SeqMax(s) == CHOOSE m \in {s[k] : k \in DOMAIN s} : \A k \in DOMAIN s : s[k] <= m

\* mutant: the shift looks back instead of ahead
TargetSeries_ShiftBack(df, window) ==
    SeriesDiv(SeriesSub(Shift(df.cols["close"], window), df.cols["close"]),
              df.cols["close"])

\* line 11: (df['close'].shift(-window) - df['close']) / df['close']
TargetSeries(df, window) ==
    SeriesDiv(SeriesSub(Shift(df.cols["close"], -window), df.cols["close"]),
              df.cols["close"])

RECURSIVE AddTargets(_, _)
AddTargets(df, k) ==
    IF k > Len(target_windows) THEN df
    ELSE AddTargets(SetCol(df, TargetCol(target_windows[k]),
                           TargetSeries(df, target_windows[k])), k + 1)

SeqMin(s) == CHOOSE m \in {s[k] : k \in DOMAIN s} : \A k \in DOMAIN s : m <= s[k]

\* mutant: the tail is cut by the shortest window
TruncateTail_MinWindow(df) == IlocDropTail(df, SeqMin(target_windows))

\* line 15: df.iloc[:-max_window]
TruncateTail(df) == IlocDropTail(df, SeqMax(target_windows))

generate_targets(df) == TruncateTail(AddTargets(df, 1))

(***************************************************************************)
(* Input tables of generate_targets: 0..MaxRows rows, the close column a   *)
(* repetition of Period price levels, the index the row's minute.          *)
(***************************************************************************)
Prices == {48, 50, 60}

CloseSeries(levels, n) == [i \in 1..n |-> Num(levels[((i - 1) % Period) + 1])]

CloseTable(levels, n) ==
    [index |-> [i \in 1..n |-> i],
     cols  |-> ("close" :> CloseSeries(levels, n))]

GtInit ==
    /\ gt_pc = "call"
    /\ \E n \in 0..MaxRows, levels \in [1..Period -> Prices] :
          gt_df = CloseTable(levels, n)
    /\ gt_out = EmptyDf

GenerateTargets ==
    /\ gt_pc = "call"
    /\ gt_out' = generate_targets(gt_df)
    /\ gt_pc' = "returned"
    /\ UNCHANGED <<gt_df, sp_vars, du_vars, pl_vars,
                 mn_vars, ac_vars>>

GtIdle == gt_pc = "idle" /\ gt_df = EmptyDf /\ gt_out = EmptyDf

(***************************************************************************)
(* 03_splitting.py: split_data                                             *)
(*                                                                         *)
(* A timestamp is the number of minutes since 00:00 of day 0.  A date      *)
(* string of params.yaml is [day, minute]: "YYYY-MM-DD" has minute 0, a    *)
(* string with a time of day has that minute.  The table passed in has a   *)
(* DatetimeIndex (main passes the cleaned table), so the conversion        *)
(* branch of lines 18-20 is not taken.                                      *)
(***************************************************************************)
MinutesPerDay == 24 * 60

SessionOpen == 9 * 60 + 30

\* the date string stands for the last minute of its day
to_datetime_EndOfDay(s) == s.day * MinutesPerDay + MinutesPerDay - 1

\* pd.to_datetime of a date string
to_datetime(s) == s.day * MinutesPerDay + s.minute

\* mutant: the train boundary is exclusive
mask_train_Strict(idx, train_date) ==
    [i \in 1..Len(idx) |-> idx[i] < train_date]

\* line 74: idx_naive <= train_date
mask_train(idx, train_date) ==
    [i \in 1..Len(idx) |-> idx[i] <= train_date]

\* mutant: the lower bound of the validation window is missing
mask_val_NoLower(idx, train_date, val_date) ==
    [i \in 1..Len(idx) |-> idx[i] <= val_date]

\* mutant: the upper bound of the validation window is exclusive
mask_val_StrictUpper(idx, train_date, val_date) ==
    [i \in 1..Len(idx) |-> idx[i] > train_date /\ idx[i] < val_date]

\* line 75: (idx_naive > train_date) & (idx_naive <= val_date)
mask_val(idx, train_date, val_date) ==
    [i \in 1..Len(idx) |-> idx[i] > train_date /\ idx[i] <= val_date]

\* mutant: the lower bound of the test window is missing
mask_test_NoLower(idx, val_date, test_date) ==
    [i \in 1..Len(idx) |-> idx[i] <= test_date]

\* line 76: (idx_naive > val_date) & (idx_naive <= test_date)
mask_test(idx, val_date, test_date) ==
    [i \in 1..Len(idx) |-> idx[i] > val_date /\ idx[i] <= test_date]

\* the positions a boolean mask selects, in order
Positions(mask) ==
    SelectSeq([i \in 1..Len(mask) |-> i], LAMBDA i : mask[i])

\* df.loc[mask].copy()
Loc(df, mask) ==
    LET p == Positions(mask)
    IN  [index |-> [k \in 1..Len(p) |-> df.index[p[k]]],
         cols  |-> [c \in DOMAIN df.cols |->
                       [k \in 1..Len(p) |-> df.cols[c][p[k]]]]]

\* mutant: the check fires only when all three are empty
AnySplitEmpty_All(train, val, test) ==
    Len(train.index) = 0 /\ Len(val.index) = 0 /\ Len(test.index) = 0

\* line 83: len(train) == 0 or len(val) == 0 or len(test) == 0
AnySplitEmpty(train, val, test) ==
    Len(train.index) = 0 \/ Len(val.index) = 0 \/ Len(test.index) = 0

\* lines 34-58: the ways reading conf/params.yaml fails
ParamsError(params) ==
    CASE params.kind = "no_file"    -> "FileNotFoundError"
      [] params.kind = "no_section" -> "KeyError"
      [] params.kind = "no_key"     -> "KeyError"
      [] OTHER                      -> "none"

\* lines 14-88: everything up to the sanity check
SplitCompute ==
    /\ sp_pc = "call"
    /\ IF ParamsError(sp_params) # "none"
       THEN /\ sp_pc' = "raised"
            /\ sp_exc' = ParamsError(sp_params)
            /\ UNCHANGED <<sp_train, sp_val, sp_test,
                 gt_vars, du_vars, pl_vars,
                 mn_vars, ac_vars>>
       ELSE LET idx        == sp_df.index
                train_date == to_datetime(sp_params.TRAIN_DATE)
                val_date   == to_datetime(sp_params.VALIDATION_DATE)
                test_date  == to_datetime(sp_params.TEST_DATE)
                train      == Loc(sp_df, mask_train(idx, train_date))
                val        == Loc(sp_df, mask_val(idx, train_date, val_date))
                test       == Loc(sp_df, mask_test(idx, val_date, test_date))
            IN  /\ sp_train' = train
                /\ sp_val' = val
                /\ sp_test' = test
                /\ IF AnySplitEmpty(train, val, test)
                   THEN sp_pc' = "raised" /\ sp_exc' = "ValueError"
                   ELSE sp_pc' = "checked" /\ sp_exc' = "none"
    /\ UNCHANGED <<sp_df, sp_params, sp_files, sp_ret,
                 gt_vars, du_vars, pl_vars,
                 mn_vars, ac_vars>>

\* line 104: train.to_parquet(...)
WriteTrain ==
    /\ sp_pc = "checked"
    /\ sp_files' = sp_files \cup {"train.parquet"}
    /\ sp_pc' = "wrote_train"
    /\ UNCHANGED <<sp_df, sp_params, sp_train, sp_val, sp_test, sp_exc, sp_ret,
                 gt_vars, du_vars, pl_vars,
                 mn_vars, ac_vars>>

\* line 105: val.to_parquet(...)
WriteVal ==
    /\ sp_pc = "wrote_train"
    /\ sp_files' = sp_files \cup {"val.parquet"}
    /\ sp_pc' = "wrote_val"
    /\ UNCHANGED <<sp_df, sp_params, sp_train, sp_val, sp_test, sp_exc, sp_ret,
                 gt_vars, du_vars, pl_vars,
                 mn_vars, ac_vars>>

\* lines 106-110: test.to_parquet(...); return train, val, test
WriteTestAndReturn ==
    /\ sp_pc = "wrote_val"
    /\ sp_files' = sp_files \cup {"test.parquet"}
    /\ sp_ret' = <<sp_train, sp_val, sp_test>>
    /\ sp_pc' = "returned"
    /\ UNCHANGED <<sp_df, sp_params, sp_train, sp_val, sp_test, sp_exc,
                 gt_vars, du_vars, pl_vars,
                 mn_vars, ac_vars>>

\* lines 101-106: mkdir or a to_parquet call fails (disk, permissions)
WriteFails ==
    /\ sp_pc \in {"checked", "wrote_train", "wrote_val"}
    /\ sp_pc' = "raised"
    /\ sp_exc' = "OSError"
    /\ UNCHANGED <<sp_df, sp_params, sp_train, sp_val, sp_test, sp_files, sp_ret,
                 gt_vars, du_vars, pl_vars,
                 mn_vars, ac_vars>>

(***************************************************************************)
(* Inputs of split_data: a table with at most one bar (at the session      *)
(* open) on each of the days 0..MaxDay, and a params.yaml that is missing, *)
(* incomplete, or holds three date strings.                                *)
(***************************************************************************)
Days == 0..MaxDay

BarTime(d) == d * MinutesPerDay + SessionOpen

RECURSIVE SortedSeq(_)
SortedSeq(S) ==
    IF S = {} THEN <<>>
    ELSE LET m == CHOOSE x \in S : \A y \in S : x <= y
         IN  <<m>> \o SortedSeq(S \ {m})

DayTable(ds) ==
    LET s == SortedSeq(ds)
    IN  [index |-> [k \in 1..Len(s) |-> BarTime(s[k])],
         cols  |-> ("close" :> [k \in 1..Len(s) |-> Num(50 + s[k])])]

DateStrings == [day : 0..(MaxDay + 1), minute : {0, SessionOpen}]

\* a params.yaml that also holds a split-mode key; split_data reads the
\* three date keys only (lines 52-54)
ProportionalParams ==
    [kind : {"ok"}, SPLIT_MODE : {"proportional"},
     TRAIN_DATE : {[day |-> 1, minute |-> 0]},
     VALIDATION_DATE : {[day |-> 2, minute |-> 0]},
     TEST_DATE : {[day |-> 3, minute |-> 0], [day |-> 4, minute |-> SessionOpen]}]

ParamsFiles ==
    [kind : {"no_file", "no_section", "no_key"}]
    \cup [kind : {"ok"}, TRAIN_DATE : DateStrings,
          VALIDATION_DATE : DateStrings, TEST_DATE : DateStrings]
    \cup ProportionalParams

SpInit ==
    /\ sp_pc = "call"
    /\ \E ds \in SUBSET Days : sp_df = DayTable(ds)
    /\ sp_params \in ParamsFiles
    /\ sp_train = EmptyDf /\ sp_val = EmptyDf /\ sp_test = EmptyDf
    /\ sp_files = {}
    /\ sp_exc = "none"
    /\ sp_ret = <<>>

SpIdle ==
    /\ sp_pc = "idle"
    /\ sp_df = EmptyDf
    /\ sp_params = [kind |-> "no_file"]
    /\ sp_train = EmptyDf /\ sp_val = EmptyDf /\ sp_test = EmptyDf
    /\ sp_files = {}
    /\ sp_exc = "none"
    /\ sp_ret = <<>>

SpNext ==
    \/ SplitCompute
    \/ WriteTrain
    \/ WriteVal
    \/ WriteTestAndReturn
    \/ WriteFails

(***************************************************************************)
(* 02_data_understanding.py: the direction labels of                       *)
(* check_target_variable_feasibility and of create_visualizations          *)
(***************************************************************************)
TARGET_WINDOWS == <<5, 10, 15, 20, 30, 60, 120>>

Range(s) == {s[k] : k \in DOMAIN s}

SeriesSubScalar(a, x) == [i \in 1..Len(a) |-> FSub(a[i], x)]

\* (a > x).astype(int): a comparison with NaN is False, hence 0
GtScalarAsInt(a, x) == [i \in 1..Len(a) |-> IF FGt(a[i], x) THEN 1 ELSE 0]

\* a.gt(b) as 0/1
GtSeries(a, b) == [i \in 1..Len(a) |-> IF FGt(a[i], b[i]) THEN 1 ELSE 0]

RECURSIVE IntSum(_, _)
IntSum(s, k) == IF k = 0 THEN 0 ELSE s[k] + IntSum(s, k - 1)

\* Series.mean() of a column without NaN; NaN for an empty column
IntMean(s) == Norm(IntSum(s, Len(s)), Len(s))

\* Series.pct_change(periods)
pct_change(s, periods) == SeriesSubScalar(SeriesDiv(s, Shift(s, periods)), Num(1))

\* Series.dropna()
DropNa(s) == SelectSeq(s, LAMBDA v : NotNa(v))

\* line 136: qqq_df['close'].shift(-window) / qqq_df['close'] - 1
future_return(close, window) ==
    SeriesSubScalar(SeriesDiv(Shift(close, -window), close), Num(1))

\* line 137: (future_return > 0).astype(int)
trend_direction(close, window) ==
    GtScalarAsInt(future_return(close, window), Num(0))

\* lines 140-145: 'total_calculable' is notna().sum() and 'missing_at_end'
\* is isna().sum() of an int column, which holds no NaN
WindowResult(close, window) ==
    LET td == trend_direction(close, window)
    IN  [feasible          |-> TRUE,
         total_calculable  |-> Len(td),
         upward_percentage |-> IntMean(td),
         missing_at_end    |-> 0]

\* lines 124-154
check_target_variable_feasibility ==
    /\ du_pc = "call"
    /\ du_trend' = [w \in Range(TARGET_WINDOWS) |-> trend_direction(du_close, w)]
    /\ du_results' = [w \in Range(TARGET_WINDOWS) |-> WindowResult(du_close, w)]
    /\ du_pc' = "checked"
    /\ UNCHANGED <<du_close, du_gt, du_up, gt_vars, sp_vars, pl_vars,
                 mn_vars, ac_vars>>

\* lines 238-244 (QQQ column): close.pct_change(5), then dropna()
returns_QQQ(close) == DropNa(pct_change(close, 5))

\* line 410: returns_df['QQQ'].shift(-window).gt(returns_df['QQQ'])
gt_future(series, window) == GtSeries(Shift(series, -window), series)

\* lines 408-412
create_visualizations ==
    /\ du_pc = "checked"
    /\ du_gt' = [w \in Range(TARGET_WINDOWS) |->
                    gt_future(returns_QQQ(du_close), w)]
    /\ du_up' = [w \in Range(TARGET_WINDOWS) |->
                    IntMean(gt_future(returns_QQQ(du_close), w))]
    /\ du_pc' = "visualized"
    /\ UNCHANGED <<du_close, du_trend, du_results, gt_vars, sp_vars, pl_vars,
                 mn_vars, ac_vars>>

DuInit ==
    /\ du_pc = "call"
    /\ \E n \in 0..MaxRows, levels \in [1..Period -> Prices] :
          du_close = CloseSeries(levels, n)
    /\ du_trend = <<>> /\ du_results = <<>> /\ du_gt = <<>> /\ du_up = <<>>

DuIdle ==
    /\ du_pc = "idle"
    /\ du_close = <<>>
    /\ du_trend = <<>> /\ du_results = <<>> /\ du_gt = <<>> /\ du_up = <<>>

DuNext ==
    \/ check_target_variable_feasibility
    \/ create_visualizations

(***************************************************************************)
(* 03_features.py and the stages of main (03_main_prep.py).                *)
(*                                                                         *)
(* Cells are exact: closes are drawn from Prices, so every return is a     *)
(* rational whose denominator divides CommonDen.  Two statistics are not   *)
(* rational and are carried by the rationals that determine them:          *)
(*   realized_vol_10 holds the square of the rolling standard deviation;   *)
(*   corr_QQQ_<sym>_15 holds <<C, VX, VY>>, standing for C / sqrt(VX*VY),  *)
(*   the scaled covariance and variances of the window.                    *)
(* Not carried: ema_5, ema_10, ema_20, ema_diff / ema_slope and vwap_norm, *)
(* which are never NaN on bars without NaN and which no later stage reads  *)
(* or writes (the later stages only drop whole rows).                      *)
(***************************************************************************)
SYMBOLS == <<"QQQ", "NVDA", "AAPL", "MSFT", "GOOGL", "AMZN">>

TECH_SYMBOLS == <<"NVDA", "AAPL", "MSFT", "GOOGL", "AMZN">>

\* f"{symbol}_return_5" and the like; corr is f'corr_QQQ_{sym}_15'
TechCol ==
    [NVDA  |-> [return_5 |-> "NVDA_return_5", return_15 |-> "NVDA_return_15",
                return_30 |-> "NVDA_return_30", volume_norm |-> "NVDA_volume_norm",
                corr |-> "corr_QQQ_NVDA_15"],
     AAPL  |-> [return_5 |-> "AAPL_return_5", return_15 |-> "AAPL_return_15",
                return_30 |-> "AAPL_return_30", volume_norm |-> "AAPL_volume_norm",
                corr |-> "corr_QQQ_AAPL_15"],
     MSFT  |-> [return_5 |-> "MSFT_return_5", return_15 |-> "MSFT_return_15",
                return_30 |-> "MSFT_return_30", volume_norm |-> "MSFT_volume_norm",
                corr |-> "corr_QQQ_MSFT_15"],
     GOOGL |-> [return_5 |-> "GOOGL_return_5", return_15 |-> "GOOGL_return_15",
                return_30 |-> "GOOGL_return_30", volume_norm |-> "GOOGL_volume_norm",
                corr |-> "corr_QQQ_GOOGL_15"],
     AMZN  |-> [return_5 |-> "AMZN_return_5", return_15 |-> "AMZN_return_15",
                return_30 |-> "AMZN_return_30", volume_norm |-> "AMZN_volume_norm",
                corr |-> "corr_QQQ_AMZN_15"]]

\* the position of a symbol's name in the sorted order of strings
AlphaRank == [AAPL |-> 1, AMZN |-> 2, GOOGL |-> 3, MSFT |-> 4, NVDA |-> 5]

LCM(a, b) == (a \div GCD(a, b)) * b

RECURSIVE LCMOf(_)
LCMOf(S) ==
    IF S = {} THEN 1
    ELSE LET x == CHOOSE y \in S : TRUE IN LCM(x, LCMOf(S \ {x}))

CommonDen == LCMOf(Prices)

\* the numerator of a cell over the denominator CommonDen
Scaled(v) == v[1] * (CommonDen \div v[2])

\* a full window of w cells ending at row i, none of them NaN
WindowValid(s, i, w) == i >= w /\ \A j \in (i - w + 1)..i : NotNa(s[j])

RECURSIVE SumProd(_, _, _, _)
SumProd(x, y, lo, hi) ==
    IF lo > hi THEN 0
    ELSE IF lo = hi THEN Scaled(x[hi]) * Scaled(y[hi])
    ELSE LET mid == (lo + hi) \div 2
         IN  SumProd(x, y, lo, mid) + SumProd(x, y, mid + 1, hi)

RECURSIVE SumScaled(_, _, _)
SumScaled(x, lo, hi) ==
    IF lo > hi THEN 0
    ELSE IF lo = hi THEN Scaled(x[hi])
    ELSE LET mid == (lo + hi) \div 2
         IN  SumScaled(x, lo, mid) + SumScaled(x, mid + 1, hi)

\* s.rolling(w).std(), squared (ddof = 1)
RollingStdSq(s, w) ==
    [i \in 1..Len(s) |->
        IF ~WindowValid(s, i, w) THEN NaN
        ELSE LET s1 == SumScaled(s, i - w + 1, i)
                 s2 == SumProd(s, s, i - w + 1, i)
             IN  Norm(w * s2 - s1 * s1, w * (w - 1) * CommonDen * CommonDen)]

\* the window ends at the bar before the current one
RollingMean_ExcludesCurrent(s, w) ==
    [i \in 1..Len(s) |->
        IF ~WindowValid(s, i - 1, w) THEN NaN
        ELSE Norm(SumScaled(s, i - w, i - 1), w * CommonDen)]

\* s.rolling(w).mean()
RollingMean(s, w) ==
    [i \in 1..Len(s) |->
        IF ~WindowValid(s, i, w) THEN NaN
        ELSE Norm(SumScaled(s, i - w + 1, i), w * CommonDen)]

\* x.rolling(w).corr(y): NaN unless the window holds w pairs without NaN;
\* NaN (0/0) when either series is constant over the window
RollingCorr(x, y, w) ==
    [i \in 1..Len(x) |->
        IF ~(WindowValid(x, i, w) /\ WindowValid(y, i, w)) THEN NaN
        ELSE LET lo == i - w + 1
                 sx == SumScaled(x, lo, i)
                 sy == SumScaled(y, lo, i)
                 c  == w * SumProd(x, y, lo, i) - sx * sy
                 vx == w * SumProd(x, x, lo, i) - sx * sx
                 vy == w * SumProd(y, y, lo, i) - sy * sy
             IN  IF vx = 0 \/ vy = 0 THEN NaN ELSE <<c, vx, vy>>]

\* a series as a tuple (every cell evaluated once)
Cells(s) == SubSeq(s, 1, Len(s))

\* the columns of a table as a finished mapping (every column evaluated once)
Columns(cols) == cols @@ <<>>

\* 03_features.py lines 4-32, with the column selection of main lines 95-108
engineer_qqq_features(df) ==
    LET close  == df.cols["close"]
        volume == df.cols["volume"]
    IN  [index |-> df.index,
         cols  |-> [c \in {"close", "return_5", "return_15", "return_30",
                           "realized_vol_10", "volume_norm"} |->
             CASE c = "close"           -> close
               [] c = "return_5"        -> Cells(pct_change(close, 5))
               [] c = "return_15"       -> Cells(pct_change(close, 15))
               [] c = "return_30"       -> Cells(pct_change(close, 30))
               [] c = "realized_vol_10" ->
                      Cells(RollingStdSq(Cells(pct_change(close, 1)), 10))
               [] c = "volume_norm"     ->
                      Cells(SeriesDiv(volume, Cells(RollingMean(volume, 60))))]]

\* 03_features.py lines 34-61, with the column selection of main lines 110-114
engineer_tech_features(df, symbol) ==
    LET close  == df.cols["close"]
        volume == df.cols["volume"]
        name   == TechCol[symbol]
    IN  [index |-> df.index,
         cols  |-> [c \in {name.return_5, name.return_15, name.return_30,
                           name.volume_norm} |->
             CASE c = name.return_5    -> Cells(pct_change(close, 5))
               [] c = name.return_15   -> Cells(pct_change(close, 15))
               [] c = name.return_30   -> Cells(pct_change(close, 30))
               [] c = name.volume_norm ->
                      Cells(SeriesDiv(volume, Cells(RollingMean(volume, 60))))]]

\* left.join(right, how="inner"): the rows of left whose label right has too
Join(left, right) ==
    LET lp == Positions([i \in 1..Len(left.index) |->
                            \E j \in 1..Len(right.index) :
                                right.index[j] = left.index[i]])
        rpos(t) == CHOOSE j \in 1..Len(right.index) : right.index[j] = t
    IN  [index |-> [k \in 1..Len(lp) |-> left.index[lp[k]]],
         cols  |-> [c \in DOMAIN left.cols \cup DOMAIN right.cols |->
                      IF c \in DOMAIN left.cols
                      THEN [k \in 1..Len(lp) |-> left.cols[c][lp[k]]]
                      ELSE [k \in 1..Len(lp) |->
                               right.cols[c][rpos(left.index[lp[k]])]]]]

\* main lines 91-122: features per symbol, then the join of all of them
RECURSIVE JoinTech(_, _, _)
JoinTech(df_final, dfs_raw, k) ==
    IF k > Len(TECH_SYMBOLS) THEN df_final
    ELSE JoinTech(Join(df_final,
                       engineer_tech_features(dfs_raw[TECH_SYMBOLS[k]], TECH_SYMBOLS[k])),
                  dfs_raw, k + 1)

engineer_and_merge(dfs_raw) ==
    JoinTech(engineer_qqq_features(dfs_raw["QQQ"]), dfs_raw, 1)

TechSet == Range(TECH_SYMBOLS)

\* line 76: df_final[tech_return_cols].mean(axis=1), NaN cells skipped
RowMean(df, i) ==
    LET valid == {sym \in TechSet : NotNa(df.cols[TechCol[sym].return_5][i])}
        RECURSIVE Sum(_)
        Sum(S) == IF S = {} THEN 0
                  ELSE LET x == CHOOSE y \in S : TRUE
                       IN  Scaled(df.cols[TechCol[x].return_5][i]) + Sum(S \ {x})
    IN  IF valid = {} THEN NaN
        ELSE Norm(Sum(valid), Cardinality(valid) * CommonDen)

\* the last column holding the maximum
leader_LastMax(df, i) ==
    LET val(k) == df.cols[TechCol[TECH_SYMBOLS[k]].return_5][i]
        valid  == {k \in DOMAIN TECH_SYMBOLS : NotNa(val(k))}
    IN  IF valid = {} THEN ""
        ELSE LET best == CHOOSE k \in valid :
                            /\ \A j \in valid : FLe(val(j), val(k))
                            /\ \A j \in valid : j > k => ~FLe(val(k), val(j))
             IN  TECH_SYMBOLS[best]

\* line 81: idxmax(axis=1), NaN cells skipped: the first column holding the
\* maximum; lines 84-86 keep the symbol; "" is NaN (a row with no value)
leader(df, i) ==
    LET val(k) == df.cols[TechCol[TECH_SYMBOLS[k]].return_5][i]
        valid  == {k \in DOMAIN TECH_SYMBOLS : NotNa(val(k))}
    IN  IF valid = {} THEN ""
        ELSE LET best == CHOOSE k \in valid :
                            /\ \A j \in valid : FLe(val(j), val(k))
                            /\ \A j \in valid : j < k => ~FLe(val(k), val(j))
             IN  TECH_SYMBOLS[best]

\* line 89: astype('category').cat.codes: the categories are the sorted
\* distinct values of the whole column, a value's code is its position
\* among them (from 0), NaN has code -1
cat_codes(names) ==
    LET categories == Range(names) \ {""}
    IN  [i \in 1..Len(names) |->
            IF names[i] = "" THEN Num(-1)
            ELSE Num(Cardinality({c \in categories :
                                     AlphaRank[c] < AlphaRank[names[i]]}))]

RECURSIVE AddCorr(_, _)
AddCorr(df, k) ==
    IF k > Len(TECH_SYMBOLS) THEN df
    ELSE LET name == TechCol[TECH_SYMBOLS[k]]
         IN  AddCorr(SetCol(df, name.corr,
                            Cells(RollingCorr(df.cols["return_5"],
                                              df.cols[name.return_5], 15))),
                     k + 1)

\* 03_features.py lines 63-91
engineer_cross_asset_features(df_final) ==
    LET n       == Len(df_final.index)
        df1     == AddCorr(df_final, 1)
        avg     == [i \in 1..n |-> RowMean(df1, i)]
        df2     == SetCol(df1, "relative_strength",
                          Cells(SeriesSub(df1.cols["return_5"], avg)))
        leaders == Cells([i \in 1..n |-> leader(df2, i)])
    IN  SetCol(df2, "momentum_leader", Cells(cat_codes(leaders)))

\* mutant: the target columns are filtered like the return columns
return_cols_WithTargets(df) ==
    {c \in DOMAIN df.cols :
        \/ c \in {"return_5", "return_15", "return_30"}
        \/ c \in {TargetCol(target_windows[k]) : k \in DOMAIN target_windows}
        \/ \E sym \in TechSet :
              c \in {TechCol[sym].return_5, TechCol[sym].return_15,
                     TechCol[sym].return_30}}

\* line 99: the columns with 'return' and without 'target' in their name
return_cols(df) ==
    {c \in DOMAIN df.cols :
        \/ c \in {"return_5", "return_15", "return_30"}
        \/ \E sym \in TechSet :
              c \in {TechCol[sym].return_5, TechCol[sym].return_15,
                     TechCol[sym].return_30}}

\* line 106: the columns with 'volume_norm' in their name
volume_cols(df) ==
    {c \in DOMAIN df.cols :
        c = "volume_norm" \/ \E sym \in TechSet : c = TechCol[sym].volume_norm}

ReturnBound == <<1, 20>>

VolumeFloor == <<1, 100>>

VolumeCap == <<10, 1>>

\* mutant: only the upper bound is tested
ReturnMask_UpperOnly(df, col) ==
    [i \in 1..Len(df.index) |->
        \/ FLe(df.cols[col][i], ReturnBound)
        \/ IsNaN(df.cols[col][i])]

\* line 102: df[col].between(-0.05, 0.05) | df[col].isna()
ReturnMask(df, col) ==
    [i \in 1..Len(df.index) |->
        \/ (FLe(<<-ReturnBound[1], ReturnBound[2]>>, df.cols[col][i])
              /\ FLe(df.cols[col][i], ReturnBound))
        \/ IsNaN(df.cols[col][i])]

\* mutant: nothing is clipped
Clip_Nothing(s) == s

\* line 108: clip(lower=0.01); NaN stays NaN
Clip(s) ==
    [i \in 1..Len(s) |->
        IF NotNa(s[i]) /\ ~FLe(VolumeFloor, s[i]) THEN VolumeFloor ELSE s[i]]

\* a missing volume_norm passes the filter
VolumeMask_KeepsNaN(df, col) ==
    [i \in 1..Len(df.index) |->
        FLe(df.cols[col][i], VolumeCap) \/ IsNaN(df.cols[col][i])]

\* line 112: df[col] <= 10.0 (False for NaN)
VolumeMask(df, col) ==
    [i \in 1..Len(df.index) |-> FLe(df.cols[col][i], VolumeCap)]

\* zeros are left as they are
ZeroToNaN_KeepsZero(s) == s

\* line 117: replace(0, np.nan)
ZeroToNaN(s) ==
    [i \in 1..Len(s) |-> IF s[i] = Num(0) THEN NaN ELSE s[i]]

\* df[mask] with every cell evaluated
Filter(df, mask) ==
    LET p == Positions(mask)
    IN  [index |-> Cells([k \in 1..Len(p) |-> df.index[p[k]]]),
         cols  |-> Columns([c \in DOMAIN df.cols |->
                       Cells([k \in 1..Len(p) |-> df.cols[c][p[k]]])])]

\* lines 101-103: one filter per return column, in turn
RECURSIVE DropReturnOutliers(_, _)
DropReturnOutliers(df, todo) ==
    IF todo = {} \/ Len(df.index) = 0 THEN df
    ELSE LET col == CHOOSE c \in todo : TRUE
         IN  DropReturnOutliers(Filter(df, ReturnMask(df, col)), todo \ {col})

\* lines 107-108
ClipVolumes(df) ==
    [df EXCEPT !.cols = Columns([c \in DOMAIN df.cols |->
        IF c \in volume_cols(df) THEN Cells(Clip(df.cols[c])) ELSE df.cols[c]])]

\* lines 111-113: one filter per volume column, in turn
RECURSIVE DropVolumeOutliers(_, _)
DropVolumeOutliers(df, todo) ==
    IF todo = {} \/ Len(df.index) = 0 THEN df
    ELSE LET col == CHOOSE c \in todo : TRUE
         IN  DropVolumeOutliers(Filter(df, VolumeMask(df, col)), todo \ {col})

\* lines 116-117
FixRealizedVol(df) ==
    IF "realized_vol_10" \in DOMAIN df.cols
    THEN SetCol(df, "realized_vol_10", Cells(ZeroToNaN(df.cols["realized_vol_10"])))
    ELSE df

\* the rows with a return beyond the bound stay; the rest is as before
clean_extreme_outliers_KeepsReturns(df) ==
    LET d2 == ClipVolumes(df)
        d3 == DropVolumeOutliers(d2, volume_cols(d2))
    IN  FixRealizedVol(d3)

\* 03_features.py lines 92-119
clean_extreme_outliers(df) ==
    LET d1 == DropReturnOutliers(df, return_cols(df))
        d2 == ClipVolumes(d1)
        d3 == DropVolumeOutliers(d2, volume_cols(d2))
    IN  FixRealizedVol(d3)

\* Series.ffill(): the last cell at or before the row that is not NaN
RECURSIVE FFillTo(_, _)
FFillTo(s, k) ==
    IF k = 0 THEN <<>>
    ELSE LET prev == FFillTo(s, k - 1)
         IN  Append(prev, IF NotNa(s[k]) \/ k = 1 THEN s[k] ELSE prev[k - 1])

ffill(s) == FFillTo(s, Len(s))

\* Series.bfill(): the first cell at or after the row that is not NaN
RECURSIVE BFillFrom(_, _)
BFillFrom(s, k) ==
    IF k > Len(s) THEN <<>>
    ELSE LET next == BFillFrom(s, k + 1)
         IN  <<IF NotNa(s[k]) \/ k = Len(s) THEN s[k] ELSE next[1]>> \o next

bfill(s) == BFillFrom(s, 1)

\* line 128: df.ffill().bfill()
FillBothWays(df) ==
    [df EXCEPT !.cols = Columns([c \in DOMAIN df.cols |-> bfill(ffill(df.cols[c]))])]

\* line 131: df.dropna()
dropna(df) ==
    Filter(df, [i \in 1..Len(df.index) |->
                   \A c \in DOMAIN df.cols : NotNa(df.cols[c][i])])

\* 03_features.py lines 121-133
handle_missing_data(df) == dropna(FillBothWays(df))

(***************************************************************************)
(* main (03_main_prep.py), from the aligned bars to the cleaned table, run *)
(* twice side by side: run "b" is given the bars of run "a" with one cell  *)
(* at row pl_mut changed.                                                  *)
(*                                                                         *)
(* The bars: PipeRows aligned minutes; every close alternates between two  *)
(* prices and every volume is BaseVolume, except for an optional stretch   *)
(* of 11 unchanged QQQ closes and for single cells set otherwise.          *)
(***************************************************************************)
Runs == {"a", "b"}

SymbolSet == Range(SYMBOLS)

BaseVolume == 100

BaseClose(i) == IF i % 2 = 0 THEN 48 ELSE 50

\* the QQQ close with closes flat over rows flat..flat+10 (flat = 0: none)
QQQClose(flat, i) ==
    IF flat > 0 /\ i >= flat /\ i <= flat + 10 THEN 48 ELSE BaseClose(i)

BaseBars(flat) ==
    [sym \in SymbolSet |->
        [index |-> [i \in 1..PipeRows |-> i],
         cols  |-> [c \in {"close", "volume"} |->
                      [i \in 1..PipeRows |->
                          IF c = "volume" THEN Num(BaseVolume)
                          ELSE IF sym = "QQQ" THEN Num(QQQClose(flat, i))
                          ELSE Num(BaseClose(i))]]]]

NoCell == [sym |-> "QQQ", col |-> "close", row |-> 0, value |-> 0]

\* bars with one cell set (row 0: none)
SetCell(bars, cell) ==
    IF cell.row = 0 THEN bars
    ELSE [bars EXCEPT ![cell.sym].cols[cell.col][cell.row] = Num(cell.value)]

FlatStarts == {0, 50, 52}

Events ==
    {NoCell,
     [sym |-> "MSFT", col |-> "close",  row |-> 61, value |-> 48],
     [sym |-> "AAPL", col |-> "close",  row |-> 62, value |-> 60],
     [sym |-> "AAPL", col |-> "close",  row |-> 57, value |-> 60],
     [sym |-> "NVDA", col |-> "volume", row |-> 63, value |-> 2000]}

Mutations ==
    {[sym |-> "QQQ",  col |-> "close",  row |-> 61, value |-> 48],
     [sym |-> "QQQ",  col |-> "close",  row |-> 61, value |-> 60],
     [sym |-> "QQQ",  col |-> "close",  row |-> 63, value |-> 48],
     [sym |-> "AAPL", col |-> "close",  row |-> 64, value |-> 50],
     [sym |-> "AAPL", col |-> "close",  row |-> 70, value |-> 50],
     [sym |-> "QQQ",  col |-> "close",  row |-> 92, value |-> 60],
     [sym |-> "AMZN", col |-> "volume", row |-> 64, value |-> 0]}

PlInit ==
    /\ pl_pc = "loaded"
    /\ \E flat \in FlatStarts, ev \in Events, mu \in Mutations :
          /\ pl_raw = [r \in Runs |->
                         IF r = "a" THEN SetCell(BaseBars(flat), ev)
                         ELSE SetCell(SetCell(BaseBars(flat), ev), mu)]
          /\ pl_mut = mu.row
    /\ pl_df = [r \in Runs |-> EmptyDf]
    /\ pl_prev = [r \in Runs |-> EmptyDf]
    /\ pl_arg = [r \in Runs |-> EmptyDf]

PlIdle ==
    /\ pl_pc = "idle"
    /\ pl_raw = <<>>
    /\ pl_df = <<>>
    /\ pl_prev = <<>>
    /\ pl_arg = <<>>
    /\ pl_mut = 0

\* main lines 87-122
EngineerFeatures ==
    /\ pl_pc = "loaded"
    /\ pl_df' = [r \in Runs |-> engineer_and_merge(pl_raw[r])]
    /\ pl_prev' = pl_df
    /\ pl_arg' = pl_df
    /\ pl_pc' = "merged"
    /\ UNCHANGED <<pl_raw, pl_mut, gt_vars, sp_vars, du_vars,
                 mn_vars, ac_vars>>

\* main lines 124-126; engineer_cross_asset_features assigns its columns to
\* the df_final it was given and returns that object (03_features.py lines
\* 71-91), where every other stage works on df.copy()
CrossAssetFeatures ==
    /\ pl_pc = "merged"
    /\ pl_df' = [r \in Runs |-> engineer_cross_asset_features(pl_df[r])]
    /\ pl_prev' = pl_df
    /\ pl_arg' = pl_df'
    /\ pl_pc' = "cross"
    /\ UNCHANGED <<pl_raw, pl_mut, gt_vars, sp_vars, du_vars,
                 mn_vars, ac_vars>>

\* main lines 128-130
Targets ==
    /\ pl_pc = "cross"
    /\ pl_df' = [r \in Runs |-> generate_targets(pl_df[r])]
    /\ pl_prev' = pl_df
    /\ pl_arg' = pl_df
    /\ pl_pc' = "targets"
    /\ UNCHANGED <<pl_raw, pl_mut, gt_vars, sp_vars, du_vars,
                 mn_vars, ac_vars>>

\* main line 146
CleanOutliers ==
    /\ pl_pc = "targets"
    /\ pl_df' = [r \in Runs |-> clean_extreme_outliers(pl_df[r])]
    /\ pl_prev' = pl_df
    /\ pl_arg' = pl_df
    /\ pl_pc' = "outliers_removed"
    /\ UNCHANGED <<pl_raw, pl_mut, gt_vars, sp_vars, du_vars,
                 mn_vars, ac_vars>>

\* main line 147
HandleMissing ==
    /\ pl_pc = "outliers_removed"
    /\ pl_df' = [r \in Runs |-> handle_missing_data(pl_df[r])]
    /\ pl_prev' = pl_df
    /\ pl_arg' = pl_df
    /\ pl_pc' = "cleaned"
    /\ UNCHANGED <<pl_raw, pl_mut, gt_vars, sp_vars, du_vars,
                 mn_vars, ac_vars>>

PlNext ==
    \/ EngineerFeatures
    \/ CrossAssetFeatures
    \/ Targets
    \/ CleanOutliers
    \/ HandleMissing

(***************************************************************************)
(* 03_main_prep.py from its start: load_and_sync_data and main, on raw     *)
(* files as 01_data_acquisition writes them (a timestamp column that is    *)
(* sorted, without duplicates and not empty), each present or absent.      *)
(***************************************************************************)
\* the timestamp column a raw file can hold
FileChoices == {<<1, 2, 3>>, <<1, 3>>, <<2>>}

RawDirs == UNION {[S -> FileChoices] : S \in SUBSET SymbolSet}

\* pd.read_parquet of a raw file with these timestamps
RawTable(ts) ==
    [index |-> ts,
     cols  |-> [c \in {"close", "volume"} |->
                  [i \in 1..Len(ts) |->
                      IF c = "volume" THEN Num(BaseVolume)
                      ELSE Num(BaseClose(ts[i]))]]]

\* the sequence s with x put before its first element greater than x
RECURSIVE InsertSorted(_, _)
InsertSorted(s, x) ==
    IF s = <<>> THEN <<x>>
    ELSE IF x < Head(s) THEN <<x>> \o s
    ELSE <<Head(s)>> \o InsertSorted(Tail(s), x)

RECURSIVE SortLabels(_)
SortLabels(s) ==
    IF s = <<>> THEN <<>>
    ELSE InsertSorted(SortLabels(SubSeq(s, 1, Len(s) - 1)), s[Len(s)])

\* the positions of df in the order sort_index() gives them
RECURSIVE SortedPositions(_, _)
SortedPositions(idx, todo) ==
    IF todo = {} THEN <<>>
    ELSE LET k == CHOOSE i \in todo :
                      \A j \in todo : idx[i] < idx[j] \/ (idx[i] = idx[j] /\ i <= j)
         IN  <<k>> \o SortedPositions(idx, todo \ {k})

\* the rows of df at the positions p, in that order
Take(df, p) ==
    [index |-> Cells([k \in 1..Len(p) |-> df.index[p[k]]]),
     cols  |-> Columns([c \in DOMAIN df.cols |->
                   Cells([k \in 1..Len(p) |-> df.cols[c][p[k]]])])]

\* line 48: df.set_index("timestamp").sort_index()
sort_index(df) == Take(df, SortedPositions(df.index, 1..Len(df.index)))

\* mutant: the second index is ignored
Intersection_KeepLeft(a, b) == a

\* line 67: Index.intersection: the labels of a that b holds, once each
Intersection(a, b) ==
    SelectSeq(a, LAMBDA t : t \in Range(b))

\* lines 65-67
RECURSIVE CommonIndex(_, _, _)
CommonIndex(common_index, indexes, k) ==
    IF k > Len(indexes) THEN common_index
    ELSE CommonIndex(Intersection(common_index, indexes[k]), indexes, k + 1)

\* line 71: df.loc[common_index]: per label, the rows that carry it
RECURSIVE LabelPositions(_, _)
LabelPositions(idx, labels) ==
    IF labels = <<>> THEN <<>>
    ELSE SelectSeq([i \in 1..Len(idx) |-> i], LAMBDA i : idx[i] = Head(labels))
         \o LabelPositions(idx, Tail(labels))

LocLabels(df, labels) == Take(df, LabelPositions(df.index, labels))

\* lines 34-77, the symbols visited in the order symbols
load_and_sync_data(files, symbols) ==
    LET found == SelectSeq(symbols, LAMBDA sym : sym \in DOMAIN files)
        dfs == [k \in 1..Len(found) |->
                   [sym |-> found[k], df |-> sort_index(RawTable(files[found[k]]))]]
    IN  IF Len(found) = 0 THEN <<>>
        ELSE LET common_index ==
                     CommonIndex(dfs[1].df.index,
                                 [k \in 1..Len(dfs) |-> dfs[k].df.index], 2)
             IN  [k \in 1..Len(dfs) |->
                     [sym |-> dfs[k].sym, df |-> LocLabels(dfs[k].df, common_index)]]

MnInit ==
    /\ mn_pc = "start"
    /\ mn_files \in RawDirs
    /\ mn_dfs = <<>>
    /\ mn_df = EmptyDf
    /\ mn_out = {}
    /\ mn_exc = "none"

MnIdle ==
    /\ mn_pc = "idle"
    /\ mn_files = <<>>
    /\ mn_dfs = <<>>
    /\ mn_df = EmptyDf
    /\ mn_out = {}
    /\ mn_exc = "none"

\* main lines 83-85
Load ==
    /\ mn_pc = "start"
    /\ mn_dfs' = load_and_sync_data(mn_files, SYMBOLS)
    /\ mn_pc' = IF mn_dfs' = <<>> THEN "returned" ELSE "loaded"
    /\ UNCHANGED <<mn_files, mn_df, mn_out, mn_exc,
                 gt_vars, sp_vars, du_vars, pl_vars, ac_vars>>

\* main lines 92-114: the features of one loaded symbol
processed(e) ==
    IF e.sym = "QQQ" THEN engineer_qqq_features(e.df)
    ELSE engineer_tech_features(e.df, e.sym)

\* main lines 120-122
RECURSIVE JoinAll(_, _, _)
JoinAll(df_final, dfs, k) ==
    IF k > Len(dfs) THEN df_final
    ELSE JoinAll(Join(df_final, processed(dfs[k])), dfs, k + 1)

\* main lines 87-122
MainFeatures ==
    /\ mn_pc = "loaded"
    /\ mn_df' = JoinAll(processed(mn_dfs[1]), mn_dfs, 2)
    /\ mn_pc' = "merged"
    /\ UNCHANGED <<mn_files, mn_dfs, mn_out, mn_exc,
                 gt_vars, sp_vars, du_vars, pl_vars, ac_vars>>

\* the columns engineer_cross_asset_features reads (03_features.py lines 71-81)
CrossInputs == {"return_5"} \cup {TechCol[sym].return_5 : sym \in TechSet}

\* the cross-asset step is passed over; the table goes on as it is
MainCrossAsset_Skipped ==
    /\ mn_pc = "merged"
    /\ mn_df' = mn_df
    /\ IF CrossInputs \subseteq DOMAIN mn_df.cols
       THEN mn_pc' = "cross" /\ mn_exc' = "none"
       ELSE mn_pc' = "raised" /\ mn_exc' = "KeyError"
    /\ UNCHANGED <<mn_files, mn_dfs, mn_out,
                 gt_vars, sp_vars, du_vars, pl_vars, ac_vars>>

\* main lines 124-126: a column that is not there is a KeyError
MainCrossAsset ==
    /\ mn_pc = "merged"
    /\ IF CrossInputs \subseteq DOMAIN mn_df.cols
       THEN /\ mn_df' = engineer_cross_asset_features(mn_df)
            /\ mn_pc' = "cross"
            /\ mn_exc' = "none"
       ELSE /\ mn_df' = mn_df
            /\ mn_pc' = "raised"
            /\ mn_exc' = "KeyError"
    /\ UNCHANGED <<mn_files, mn_dfs, mn_out,
                 gt_vars, sp_vars, du_vars, pl_vars, ac_vars>>

\* main lines 128-130
MainTargets ==
    /\ mn_pc = "cross"
    /\ mn_df' = generate_targets(mn_df)
    /\ mn_pc' = "targets"
    /\ UNCHANGED <<mn_files, mn_dfs, mn_out, mn_exc,
                 gt_vars, sp_vars, du_vars, pl_vars, ac_vars>>

\* main line 146
MainClean ==
    /\ mn_pc = "targets"
    /\ mn_df' = clean_extreme_outliers(mn_df)
    /\ mn_pc' = "outliers_removed"
    /\ UNCHANGED <<mn_files, mn_dfs, mn_out, mn_exc,
                 gt_vars, sp_vars, du_vars, pl_vars, ac_vars>>

\* main line 147
MainMissing ==
    /\ mn_pc = "outliers_removed"
    /\ mn_df' = handle_missing_data(mn_df)
    /\ mn_pc' = "cleaned"
    /\ UNCHANGED <<mn_files, mn_dfs, mn_out, mn_exc,
                 gt_vars, sp_vars, du_vars, pl_vars, ac_vars>>

\* main line 162: reporting.save_feature_stats writes feature_stats.png
MainSaveStats ==
    /\ mn_pc = "cleaned"
    /\ mn_out' = mn_out \cup {"feature_stats.png"}
    /\ mn_pc' = "stats_saved"
    /\ UNCHANGED <<mn_files, mn_dfs, mn_df, mn_exc,
                 gt_vars, sp_vars, du_vars, pl_vars, ac_vars>>

\* conf/params.yaml as main finds it
MainParams ==
    {[kind |-> "no_file"],
     [kind |-> "ok", TRAIN_DATE |-> [day |-> 0, minute |-> 1],
      VALIDATION_DATE |-> [day |-> 0, minute |-> 2],
      TEST_DATE |-> [day |-> 0, minute |-> 3]]}

\* 03_splitting.py lines 14-88: the exception split_data raises, "none" if none
SplitRaises(df, params) ==
    IF ParamsError(params) # "none" THEN ParamsError(params)
    ELSE LET idx        == df.index
             train_date == to_datetime(params.TRAIN_DATE)
             val_date   == to_datetime(params.VALIDATION_DATE)
             test_date  == to_datetime(params.TEST_DATE)
         IN  IF AnySplitEmpty(Loc(df, mask_train(idx, train_date)),
                              Loc(df, mask_val(idx, train_date, val_date)),
                              Loc(df, mask_test(idx, val_date, test_date)))
             THEN "ValueError" ELSE "none"

\* main line 165, for a table split_data rejects
MainSplit ==
    /\ mn_pc = "stats_saved"
    /\ \E params \in MainParams :
          /\ SplitRaises(mn_df, params) # "none"
          /\ mn_exc' = SplitRaises(mn_df, params)
    /\ mn_pc' = "raised"
    /\ UNCHANGED <<mn_files, mn_dfs, mn_df, mn_out,
                 gt_vars, sp_vars, du_vars, pl_vars, ac_vars>>

MnNext ==
    \/ Load
    \/ MainFeatures
    \/ MainCrossAsset
    \/ MainTargets
    \/ MainClean
    \/ MainMissing
    \/ MainSaveStats
    \/ MainSplit

(***************************************************************************)
(* 01_data_acquisition.py: the loop over TICKERS.  An instant is a number  *)
(* of minutes since 00:00 UTC of day 0; US/Eastern is taken at standard    *)
(* time.  The calendar holds day 0 (a regular session); day 1 is not a     *)
(* trading day.                                                            *)
(***************************************************************************)
TICKERS == <<"QQQ", "NVDA", "AAPL", "MSFT", "GOOGL", "AMZN">>

EasternOffset == 5 * 60

SessionClose == 16 * 60

\* lines 85-92: date -> (open_dt, close_dt), both as Eastern minutes
cal_map ==
    [d \in {0} |-> <<d * MinutesPerDay + SessionOpen,
                     d * MinutesPerDay + SessionClose>>]

\* the close of the session counts as open
check_open_CloseInclusive(ts) ==
    LET ts_eastern == ts - EasternOffset
        d == ts_eastern \div MinutesPerDay
    IN  /\ d \in DOMAIN cal_map
        /\ cal_map[d][1] <= ts_eastern /\ ts_eastern <= cal_map[d][2]

\* lines 95-106
check_open(ts) ==
    LET ts_eastern == ts - EasternOffset
        d == ts_eastern \div MinutesPerDay
    IN  /\ d \in DOMAIN cal_map
        /\ cal_map[d][1] <= ts_eastern /\ ts_eastern < cal_map[d][2]

\* line 239: drop_duplicates(subset=["timestamp"]), the first of each kept
RECURSIVE drop_duplicates(_)
drop_duplicates(s) ==
    IF s = <<>> THEN <<>>
    ELSE LET init == drop_duplicates(SubSeq(s, 1, Len(s) - 1))
         IN  IF s[Len(s)] \in Range(init) THEN init
             ELSE Append(init, s[Len(s)])

\* line 250: dt.strftime("%Y-%m-%d %H:%M:%S") of a UTC timestamp
strftime(ts) ==
    [day |-> ts \div MinutesPerDay, minute |-> ts % MinutesPerDay]

\* lines 221-239: the timestamp column after filter, sort and de-duplication
df_filtered(all_bars) ==
    drop_duplicates(SortLabels(SelectSeq(all_bars, check_open)))

\* the instants a bar of the API answer can carry: Eastern 09:29, 09:30,
\* 15:59 and 16:00 of day 0, and 09:30 of day 1
BarInstants ==
    {EasternOffset + SessionOpen - 1, EasternOffset + SessionOpen,
     EasternOffset + SessionClose - 1, EasternOffset + SessionClose,
     EasternOffset + MinutesPerDay + SessionOpen}

\* lines 129-181: all_bars, pages may repeat or disorder bars
ApiAnswers ==
    UNION {[1..n -> BarInstants] : n \in 0..MaxBars}

AcInit ==
    /\ ac_pc = "loop"
    /\ ac_i = 0
    /\ ac_files = <<>>

AcIdle ==
    /\ ac_pc = "idle"
    /\ ac_i = 0
    /\ ac_files = <<>>

\* lines 118-257: one pass of the loop body
AcquireSymbol ==
    /\ ac_pc = "loop"
    /\ \E all_bars \in ApiAnswers :
          LET symbol == TICKERS[ac_i + 1]
              kept   == df_filtered(all_bars)
          IN  ac_files' =
                  IF Len(all_bars) = 0 \/ Len(kept) = 0 THEN ac_files
                  ELSE (symbol :> [k \in 1..Len(kept) |-> strftime(kept[k])])
                           @@ ac_files
    /\ ac_i' = ac_i + 1
    /\ ac_pc' = IF ac_i + 1 = Len(TICKERS) THEN "done" ELSE "loop"
    /\ UNCHANGED <<gt_vars, sp_vars, du_vars, pl_vars, mn_vars>>

(***************************************************************************)
(* main on raw files of seven bars, one of which (minute 4) a symbol's     *)
(* file may lack: alignment then removes that minute from every table.     *)
(***************************************************************************)
GapChoices == {<<1, 2, 3, 4, 5, 6, 7>>, <<1, 2, 3, 5, 6, 7>>}

GapDirs == [SymbolSet -> GapChoices]

MnInitGap ==
    /\ mn_pc = "start"
    /\ mn_files \in GapDirs
    /\ mn_dfs = <<>>
    /\ mn_df = EmptyDf
    /\ mn_out = {}
    /\ mn_exc = "none"

(***************************************************************************)
(* engineer_cross_asset_features on merged tables that hold a missing      *)
(* return: CrossRows rows of the six return_5 columns, the cells taken in  *)
(* turn from CrossValues, and at most one cell per run replaced by NaN.    *)
(***************************************************************************)
CrossValues == <<<<1, 24>>, <<-1, 25>>, <<0, 1>>, <<1, 25>>>>

\* the return_5 columns of the merged table: QQQ's, then the predictors'
CrossColumns ==
    <<"return_5">> \o [k \in 1..Len(TECH_SYMBOLS) |-> TechCol[TECH_SYMBOLS[k]].return_5]

CrossBase ==
    [index |-> [i \in 1..CrossRows |-> i],
     cols  |-> [c \in Range(CrossColumns) |->
                  LET k == CHOOSE j \in DOMAIN CrossColumns : CrossColumns[j] = c
                  IN  [i \in 1..CrossRows |->
                          CrossValues[((i * k + i \div k) % Len(CrossValues)) + 1]]]]

\* the cell a run has missing; row 0 stands for none
CrossGaps ==
    {[col |-> "return_5", row |-> 0]}
    \cup [col : Range(CrossColumns), row : {1, 15, CrossRows}]

WithGap(df, gap) ==
    IF gap.row = 0 THEN df
    ELSE [df EXCEPT !.cols[gap.col][gap.row] = NaN]

PlInitCross ==
    /\ pl_pc = "merged"
    /\ pl_raw = <<>>
    /\ \E ga \in CrossGaps, gb \in CrossGaps :
          pl_df = [r \in Runs |->
                      IF r = "a" THEN WithGap(CrossBase, ga)
                      ELSE WithGap(CrossBase, gb)]
    /\ pl_prev = [r \in Runs |-> EmptyDf]
    /\ pl_arg = [r \in Runs |-> EmptyDf]
    /\ pl_mut = 0

(***************************************************************************)
(* The per-symbol feature functions on series of every length up to        *)
(* FeatureRows: closes and volumes that repeat with the period of          *)
(* ClosePattern, shifted from one symbol to the next.                      *)
(***************************************************************************)
ClosePattern == <<48, 50, 60, 50, 48, 48, 60>>

\* the position of a symbol in SYMBOLS
SymbolRank(sym) == CHOOSE k \in DOMAIN SYMBOLS : SYMBOLS[k] = sym

PatternBars(sym, n) ==
    [index |-> [i \in 1..n |-> i],
     cols  |-> [c \in {"close", "volume"} |->
                  [i \in 1..n |->
                      IF c = "close"
                      THEN Num(ClosePattern[((i + SymbolRank(sym)) % Len(ClosePattern)) + 1])
                      ELSE Num(BaseVolume + 20 * ((i + SymbolRank(sym)) % Len(ClosePattern)))]]]

\* the lengths of the series: none, shorter than every window, around each
\* window, and past the longest
SeriesLengths == {0, 1, 5, 6, 16, 31, 59, 60, FeatureRows}

PlInitFeatures ==
    /\ pl_pc = "loaded"
    /\ \E na \in SeriesLengths, nb \in SeriesLengths :
          pl_raw = [r \in Runs |->
                       [sym \in SymbolSet |->
                           PatternBars(sym, IF r = "a" THEN na ELSE nb)]]
    /\ pl_df = [r \in Runs |-> EmptyDf]
    /\ pl_prev = [r \in Runs |-> EmptyDf]
    /\ pl_arg = [r \in Runs |-> EmptyDf]
    /\ pl_mut = 0

(***************************************************************************)
(* clean_extreme_outliers and handle_missing_data on tables of CleanRows   *)
(* rows with the columns return_5, volume_norm and realized_vol_10, every  *)
(* row of one of the kinds of RowKinds.                                    *)
(***************************************************************************)
\* return_5: missing, within bounds, above 0.05; volume_norm: missing, below
\* the floor, usual, above 10; realized_vol_10: zero or not
RowKinds ==
    {[return_5 |-> <<1, 100>>, volume_norm |-> Num(1),     realized_vol_10 |-> <<1, 100>>],
     [return_5 |-> <<1, 100>>, volume_norm |-> Num(1),     realized_vol_10 |-> Num(0)],
     [return_5 |-> NaN,        volume_norm |-> Num(1),     realized_vol_10 |-> <<1, 100>>],
     [return_5 |-> NaN,        volume_norm |-> Num(1),     realized_vol_10 |-> Num(0)],
     [return_5 |-> <<1, 100>>, volume_norm |-> NaN,        realized_vol_10 |-> <<1, 100>>],
     [return_5 |-> <<3, 50>>,  volume_norm |-> Num(1),     realized_vol_10 |-> <<1, 100>>],
     [return_5 |-> <<1, 100>>, volume_norm |-> Num(11),    realized_vol_10 |-> <<1, 100>>],
     [return_5 |-> <<1, 100>>, volume_norm |-> <<1, 200>>, realized_vol_10 |-> <<1, 25>>]}

RowsTable(rows) ==
    [index |-> [i \in 1..Len(rows) |-> i],
     cols  |-> [c \in {"return_5", "volume_norm", "realized_vol_10"} |->
                  [i \in 1..Len(rows) |-> rows[i][c]]]]

PlInitCleaner ==
    /\ pl_pc = "targets"
    /\ pl_raw = <<>>
    /\ \E rows \in [1..CleanRows -> RowKinds] :
          pl_df = [r \in Runs |-> RowsTable(rows)]
    /\ pl_prev = [r \in Runs |-> EmptyDf]
    /\ pl_arg = [r \in Runs |-> EmptyDf]
    /\ pl_mut = 0

PlNextCleaner ==
    \/ CleanOutliers
    \/ HandleMissing

(***************************************************************************)
(* Specifications: one per component, the other components idle.           *)
(***************************************************************************)
InitTargets == GtInit /\ SpIdle /\ DuIdle /\ PlIdle /\ MnIdle /\ AcIdle

SpecTargets == InitTargets /\ [][GenerateTargets]_vars

InitSplit == SpInit /\ GtIdle /\ DuIdle /\ PlIdle /\ MnIdle /\ AcIdle

SpecSplit == InitSplit /\ [][SpNext]_vars

InitDirection == DuInit /\ GtIdle /\ SpIdle /\ PlIdle /\ MnIdle /\ AcIdle

SpecDirection == InitDirection /\ [][DuNext]_vars

InitPipeline == PlInit /\ GtIdle /\ SpIdle /\ DuIdle /\ MnIdle /\ AcIdle

SpecPipeline == InitPipeline /\ [][PlNext]_vars

InitAcquisition == AcInit /\ GtIdle /\ SpIdle /\ DuIdle /\ PlIdle /\ MnIdle

SpecAcquisition == InitAcquisition /\ [][AcquireSymbol]_vars

InitMain == MnInit /\ GtIdle /\ SpIdle /\ DuIdle /\ PlIdle /\ AcIdle

SpecMain == InitMain /\ [][MnNext]_vars

InitCleaner == PlInitCleaner /\ GtIdle /\ SpIdle /\ DuIdle /\ MnIdle /\ AcIdle

SpecCleaner == InitCleaner /\ [][PlNextCleaner]_vars

InitFeatures == PlInitFeatures /\ GtIdle /\ SpIdle /\ DuIdle /\ MnIdle /\ AcIdle

SpecFeatures == InitFeatures /\ [][EngineerFeatures]_vars

InitCross == PlInitCross /\ GtIdle /\ SpIdle /\ DuIdle /\ MnIdle /\ AcIdle

SpecCross == InitCross /\ [][CrossAssetFeatures]_vars

InitMainGap == MnInitGap /\ GtIdle /\ SpIdle /\ DuIdle /\ PlIdle /\ AcIdle

SpecMainGap == InitMainGap /\ [][MnNext]_vars

(***************************************************************************)
(* Properties of generate_targets (SpecTargets).                           *)
(***************************************************************************)
MaxWindow == SeqMax(target_windows)

C4_ExactRowCount ==
    gt_pc = "returned" =>
        /\ Len(gt_out.index) = Len(gt_df.index) - MaxWindow
        /\ gt_out.index = SubSeq(gt_df.index, 1, Len(gt_df.index) - MaxWindow)

\* C4 amended: an input of at least max(h) rows gives its first
\* len(input) - max(h) rows, in order and unchanged; a shorter input gives
\* no rows.
C4_RowCountOrEmpty ==
    gt_pc = "returned" =>
        LET len == Len(gt_df.index)
            n   == IF len >= MaxWindow THEN len - MaxWindow ELSE 0
        IN  /\ Len(gt_out.index) = n
            /\ gt_out.index = SubSeq(gt_df.index, 1, n)
            /\ \A c \in DOMAIN gt_df.cols :
                  gt_out.cols[c] = SubSeq(gt_df.cols[c], 1, n)

C4_Witness ==
    /\ gt_pc = "returned"
    /\ Len(gt_df.index) > MaxWindow
    /\ Len(gt_out.index) = Len(gt_df.index) - MaxWindow
    /\ Len(gt_out.index) >= 2

(***************************************************************************)
(* Properties of the direction labels (SpecDirection).                     *)
(***************************************************************************)
\* C5: wherever a direction label is computed from the value h rows ahead,
\* the rows whose i+h lies beyond the end are removed before the
\* comparison: no row that carries a label has its future row out of range.
C5_TailRowsCarryNoLabel ==
    /\ \A w \in DOMAIN du_trend : \A i \in DOMAIN du_trend[w] :
          i + w <= Len(du_close)
    /\ \A w \in DOMAIN du_gt : \A i \in DOMAIN du_gt[w] :
          i + w <= Len(returns_QQQ(du_close))

(***************************************************************************)
(* Properties of split_data (SpecSplit).                                   *)
(***************************************************************************)
ParamsOk == sp_params.kind = "ok"

train_end == to_datetime(sp_params.TRAIN_DATE)

val_end == to_datetime(sp_params.VALIDATION_DATE)

test_end == to_datetime(sp_params.TEST_DATE)

Timestamps(df) == Range(df.index)

\* C6: each row goes to train iff timestamp <= train_end, to validation iff
\* train_end < timestamp <= val_end, to test iff val_end < timestamp <=
\* test_end; a row with timestamp > test_end is in none of the splits.
C6_CalendarAssignment ==
    sp_pc = "returned" =>
        \A i \in 1..Len(sp_df.index) :
            LET t == sp_df.index[i]
            IN  /\ (t \in Timestamps(sp_ret[1])) <=> (t <= train_end)
                /\ (t \in Timestamps(sp_ret[2])) <=> (train_end < t /\ t <= val_end)
                /\ (t \in Timestamps(sp_ret[3])) <=> (val_end < t /\ t <= test_end)
                /\ t > test_end =>
                      t \notin Timestamps(sp_ret[1]) \cup Timestamps(sp_ret[2])
                                \cup Timestamps(sp_ret[3])

C6_Witness ==
    /\ sp_pc = "returned"
    /\ \E i \in 1..Len(sp_df.index) : sp_df.index[i] = train_end
    /\ \E i \in 1..Len(sp_df.index) : sp_df.index[i] = test_end
    /\ \E i \in 1..Len(sp_df.index) : sp_df.index[i] > test_end

\* the position of timestamp t in the table passed in
PosIn(df, t) == CHOOSE i \in 1..Len(df.index) : df.index[i] = t

KeepsOrder(part, df) ==
    /\ Timestamps(part) \subseteq Timestamps(df)
    /\ \A j, k \in 1..Len(part.index) :
          j < k => PosIn(df, part.index[j]) < PosIn(df, part.index[k])

\* C7: whenever split_data returns, the splits are pairwise disjoint,
\* max(train) < min(validation), max(validation) < min(test), and each
\* split keeps the relative order of the rows of the cleaned table.
C7_DisjointOrderedSplits ==
    sp_pc = "returned" =>
        LET train == sp_ret[1]
            val   == sp_ret[2]
            test  == sp_ret[3]
        IN  /\ Timestamps(train) \cap Timestamps(val) = {}
            /\ Timestamps(train) \cap Timestamps(test) = {}
            /\ Timestamps(val) \cap Timestamps(test) = {}
            /\ \A a \in Timestamps(train), b \in Timestamps(val) : a < b
            /\ \A a \in Timestamps(val), b \in Timestamps(test) : a < b
            /\ KeepsOrder(train, sp_df)
            /\ KeepsOrder(val, sp_df)
            /\ KeepsOrder(test, sp_df)

C7_Witness ==
    /\ sp_pc = "returned"
    /\ Len(sp_ret[1].index) >= 2
    /\ Len(sp_ret[3].index) >= 2

\* C8 as stated: whenever split_data returns, the union of the index sets
\* of the splits is the index set of the cleaned table.
C8_SplitsCoverTable ==
    sp_pc = "returned" =>
        Timestamps(sp_ret[1]) \cup Timestamps(sp_ret[2]) \cup Timestamps(sp_ret[3])
            = Timestamps(sp_df)

\* C8 amended: whenever split_data returns, the union of the index sets of
\* the splits is the set of rows of the cleaned table with timestamp <=
\* test_end.
C8_SplitsCoverUpToTestEnd ==
    sp_pc = "returned" =>
        Timestamps(sp_ret[1]) \cup Timestamps(sp_ret[2]) \cup Timestamps(sp_ret[3])
            = {t \in Timestamps(sp_df) : t <= test_end}

C8_Witness ==
    /\ sp_pc = "returned"
    /\ Len(sp_ret[1].index) + Len(sp_ret[2].index) + Len(sp_ret[3].index)
          < Len(sp_df.index)
    /\ \E i \in 1..Len(sp_df.index) : sp_df.index[i] = val_end

\* a split that would be empty, read off the table and the cutoffs
WouldBeEmpty ==
    \/ ~ \E t \in Timestamps(sp_df) : t <= train_end
    \/ ~ \E t \in Timestamps(sp_df) : train_end < t /\ t <= val_end
    \/ ~ \E t \in Timestamps(sp_df) : val_end < t /\ t <= test_end

\* C9: if any of train, validation or test would be empty, split_data fails
\* with an error and writes none of the three parquet files.
C9_EmptySplitFailsBeforeWrite ==
    (ParamsOk /\ sp_pc # "call" /\ WouldBeEmpty) =>
        /\ sp_pc = "raised"
        /\ sp_exc = "ValueError"
        /\ sp_files = {}
        /\ sp_ret = <<>>

C9_Witness ==
    /\ sp_pc = "raised"
    /\ ParamsOk
    /\ train_end < val_end /\ val_end < test_end
    /\ Len(sp_train.index) > 0
    /\ Len(sp_val.index) = 0
    /\ Len(sp_test.index) > 0
    /\ sp_files = {}

\* C10: if the cutoff dates are not strictly increasing, split_data fails
\* with an error and returns no splits, whatever the table.
C10_UnorderedCutoffsFail ==
    (ParamsOk /\ sp_pc # "call" /\ ~(train_end < val_end /\ val_end < test_end)) =>
        /\ sp_pc = "raised"
        /\ sp_exc # "none"
        /\ sp_ret = <<>>

C10_Witness ==
    /\ sp_pc = "raised"
    /\ ParamsOk
    /\ train_end > val_end /\ val_end < test_end
    /\ Len(sp_train.index) > 1
    /\ Len(sp_test.index) > 0
    /\ \E t \in Timestamps(sp_df) : t > test_end

(***************************************************************************)
(* The cleaned table of the two runs.                                      *)
(***************************************************************************)
\* the columns of the table that are not targets
FeatureCols(df) ==
    DOMAIN df.cols \ {TargetCol(target_windows[k]) : k \in DOMAIN target_windows}

\* the position of the row labelled t
RowOf(df, t) == CHOOSE k \in 1..Len(df.index) : df.index[k] = t

SurvivorsUpTo(df, t) == {x \in Range(df.index) : x <= t}

\* C1: in the cleaned table, a feature cell of a surviving row before the
\* changed bar is the same in both runs, whenever the rows surviving up to
\* that row are the same in both runs.
C1_FeaturesIgnoreLaterBars ==
    pl_pc = "cleaned" =>
        \A t \in Range(pl_df["a"].index) :
            (/\ t < pl_mut
             /\ SurvivorsUpTo(pl_df["a"], t) = SurvivorsUpTo(pl_df["b"], t))
            => \A F \in FeatureCols(pl_df["a"]) :
                  pl_df["a"].cols[F][RowOf(pl_df["a"], t)]
                      = pl_df["b"].cols[F][RowOf(pl_df["b"], t)]

\* C2: a cell that enters handle_missing_data missing, with no earlier cell
\* of its column present, is not filled: its row is absent from the cleaned
\* table.
C2_LeadingGapRowsAreDropped ==
    pl_pc = "cleaned" =>
        \A r \in Runs : \A k \in 1..Len(pl_prev[r].index) :
            (\E c \in DOMAIN pl_prev[r].cols :
                 \A j \in 1..k : IsNaN(pl_prev[r].cols[c][j]))
            => pl_prev[r].index[k] \notin Range(pl_df[r].index)

(***************************************************************************)
(* The cleaner: clean_extreme_outliers and handle_missing_data             *)
(***************************************************************************)
InReturnBound(v) ==
    FLe(<<-ReturnBound[1], ReturnBound[2]>>, v) /\ FLe(v, ReturnBound)

InVolumeBound(v) == FLe(VolumeFloor, v) /\ FLe(v, VolumeCap)

\* a cell of the row labelled t
Cell(df, c, t) == df.cols[c][RowOf(df, t)]

\* C11: in the cleaned table every return column of every row lies within
\* [-0.05, 0.05] and every volume_norm column within [0.01, 10].
C11_OutlierBound ==
    pl_pc = "cleaned" =>
        \A r \in Runs : \A k \in 1..Len(pl_df[r].index) :
            /\ \A c \in return_cols(pl_df[r]) : InReturnBound(pl_df[r].cols[c][k])
            /\ \A c \in volume_cols(pl_df[r]) : InVolumeBound(pl_df[r].cols[c][k])

\* a cleaned table with a filled cell, a volume_norm raised to the floor and
\* a row removed before it
C11_Witness ==
    /\ pl_pc = "cleaned"
    /\ \E r \in Runs :
          /\ \E k \in 1..Len(pl_df[r].index), c \in volume_cols(pl_df[r]) :
                pl_df[r].cols[c][k] = VolumeFloor
          /\ \E t \in Range(pl_df[r].index), c \in DOMAIN pl_df[r].cols :
                IsNaN(Cell(pl_prev[r], c, t)) /\ NotNa(Cell(pl_df[r], c, t))
          /\ \E t \in Range(pl_df[r].index) :
                t > pl_df[r].index[1] /\ (t - 1) \notin Range(pl_df[r].index)

ReturnOutlier(df, k) ==
    {c \in return_cols(df) :
        NotNa(df.cols[c][k]) /\ ~InReturnBound(df.cols[c][k])}

\* C12: clean_extreme_outliers removes every row in which some return column
\* is outside [-0.05, 0.05], and leaves the return cells of the rows it keeps
\* as they were.
C12_ReturnOutlierRowsRemoved ==
    pl_pc = "outliers_removed" =>
        \A r \in Runs :
            /\ \A k \in 1..Len(pl_prev[r].index) :
                  ReturnOutlier(pl_prev[r], k) # {}
                  => pl_prev[r].index[k] \notin Range(pl_df[r].index)
            /\ \A t \in Range(pl_df[r].index) :
                  \A c \in return_cols(pl_df[r]) :
                      Cell(pl_df[r], c, t) = Cell(pl_prev[r], c, t)

\* a removed row with exactly one return column out of bounds and every
\* volume_norm within bounds
C12_Witness ==
    /\ pl_pc = "outliers_removed"
    /\ \E r \in Runs : \E k \in 1..Len(pl_prev[r].index) :
          /\ Cardinality(ReturnOutlier(pl_prev[r], k)) = 1
          /\ \A c \in volume_cols(pl_prev[r]) :
                InVolumeBound(pl_prev[r].cols[c][k])
          /\ pl_prev[r].index[k] \notin Range(pl_df[r].index)
          /\ Len(pl_df[r].index) > 0

TargetCols == {TargetCol(target_windows[k]) : k \in DOMAIN target_windows}

\* the feature cells of row k are within the bounds of the cleaner
FeaturesInBounds(df, k) ==
    /\ \A c \in return_cols(df) \ TargetCols :
          IsNaN(df.cols[c][k]) \/ InReturnBound(df.cols[c][k])
    /\ \A c \in volume_cols(df) :
          NotNa(df.cols[c][k]) /\ FLe(df.cols[c][k], VolumeCap)

\* the forward return of the QQQ close of the aligned bars, h rows after t
ForwardReturn(r, t, h) ==
    LET close == pl_raw[r]["QQQ"].cols["close"]
    IN  FDiv(FSub(close[t + h], close[t]), close[t])

\* C13: clean_extreme_outliers keeps every row whose feature cells are within
\* bounds, whatever its targets, and leaves its targets as they were; in the
\* cleaned table every target_h is the forward return over the aligned bars.
C13_TargetsUntouched ==
    /\ pl_pc = "outliers_removed" =>
          \A r \in Runs : \A k \in 1..Len(pl_prev[r].index) :
              FeaturesInBounds(pl_prev[r], k) =>
                  /\ pl_prev[r].index[k] \in Range(pl_df[r].index)
                  /\ \A c \in TargetCols :
                        Cell(pl_df[r], c, pl_prev[r].index[k])
                            = pl_prev[r].cols[c][k]
    /\ pl_pc = "cleaned" =>
          \A r \in Runs : \A t \in Range(pl_df[r].index) :
              \A k \in DOMAIN target_windows :
                  Cell(pl_df[r], TargetCol(target_windows[k]), t)
                      = ForwardReturn(r, t, target_windows[k])

\* a row of the cleaned table with a target outside [-0.05, 0.05]
C13_Witness ==
    /\ pl_pc = "cleaned"
    /\ \E r \in Runs : \E t \in Range(pl_df[r].index) : \E c \in TargetCols :
          /\ ~InReturnBound(Cell(pl_df[r], c, t))
          /\ FeaturesInBounds(pl_prev[r], RowOf(pl_prev[r], t))

(***************************************************************************)
(* load_and_sync_data                                                      *)
(***************************************************************************)
RECURSIVE Intersect(_)
Intersect(sets) ==
    IF Cardinality(sets) = 1 THEN CHOOSE S \in sets : TRUE
    ELSE LET S == CHOOSE T \in sets : TRUE
         IN  S \cap Intersect(sets \ {S})

\* the timestamps every raw file that exists holds
SharedTimestamps ==
    Intersect({Range(mn_files[sym]) : sym \in DOMAIN mn_files})

\* SYMBOLS in another order
Reordered(p) == [k \in 1..Len(SYMBOLS) |-> p[SYMBOLS[k]]]

\* C14: the index of every aligned table is the ascending sequence of the
\* timestamps all loaded files share, whatever the order the symbols are
\* visited in.
C14_AlignedIndexIsIntersection ==
    mn_pc = "loaded" =>
        LET shared == SortedSeq(SharedTimestamps)
            index == Columns([sym \in DOMAIN mn_files |->
                         sort_index(RawTable(mn_files[sym])).index])
        IN  /\ \A k \in 1..Len(mn_dfs) : mn_dfs[k].df.index = shared
            /\ \A p \in Permutations(SymbolSet) :
                  LET found == SelectSeq(Reordered(p),
                                         LAMBDA sym : sym \in DOMAIN mn_files)
                  IN  CommonIndex(index[found[1]],
                                  [k \in 1..Len(found) |-> index[found[k]]], 2)
                          = shared

\* six files that differ, sharing two timestamps that are not adjacent
C14_Witness ==
    /\ mn_pc = "loaded"
    /\ Len(mn_dfs) = Len(SYMBOLS)
    /\ mn_files["QQQ"] = <<1, 2, 3>>
    /\ \A k \in 1..Len(mn_dfs) : mn_dfs[k].df.index = <<1, 3>>

\* a configured symbol has no raw file, or the files share no timestamp
DataUnavailable ==
    DOMAIN mn_files # SymbolSet \/ SharedTimestamps = {}

\* C15: when a configured symbol has no bars or the files share no timestamp,
\* the run computes no feature table, writes nothing and ends with a
\* data-unavailable error.
C15_UnavailableDataFailsCleanly ==
    (mn_pc # "idle" /\ DataUnavailable) =>
        /\ mn_pc \in {"start", "loaded", "raised"}
        /\ mn_pc = "raised" => mn_exc = "DataUnavailable"
        /\ mn_out = {}

(***************************************************************************)
(* split_data: what is persisted, and the split mode                       *)
(***************************************************************************)
SplitArtifacts == {"train.parquet", "val.parquet", "test.parquet"}

\* C17: once split_data has returned or raised, it has written all three
\* split files or none of them.
C17_AllOrNothing ==
    sp_pc \in {"returned", "raised"} =>
        sp_files = {} \/ sp_files = SplitArtifacts

\* C18: when the configuration selects the proportional mode, the first 70%
\* of the rows are train, the next 15% validation and the rest test, and the
\* three together have as many rows as the table.
C18_ProportionalMode ==
    (/\ sp_pc = "returned"
     /\ "SPLIT_MODE" \in DOMAIN sp_params
     /\ sp_params.SPLIT_MODE = "proportional") =>
        LET n == Len(sp_df.index)
            a == (70 * n) \div 100
            b == (85 * n) \div 100
        IN  /\ sp_train.index = SubSeq(sp_df.index, 1, a)
            /\ sp_val.index = SubSeq(sp_df.index, a + 1, b)
            /\ sp_test.index = SubSeq(sp_df.index, b + 1, n)
            /\ Len(sp_train.index) + Len(sp_val.index) + Len(sp_test.index) = n

(***************************************************************************)
(* 01_data_acquisition.py: the files written                               *)
(***************************************************************************)
\* the instants of a written file, read back as UTC
FileInstants(sym) ==
    [k \in 1..Len(ac_files[sym]) |-> to_datetime(ac_files[sym][k])]

\* the instant lies in the regular session of its Eastern date
InRegularSession(ts) ==
    \E d \in DOMAIN cal_map :
        /\ d * MinutesPerDay <= ts - EasternOffset
        /\ ts - EasternOffset < (d + 1) * MinutesPerDay
        /\ cal_map[d][1] <= ts - EasternOffset
        /\ ts - EasternOffset < cal_map[d][2]

\* C19: every file written holds at least one bar, its timestamps ascend
\* strictly and each lies in the regular session of its Eastern date.
C19_BarSeriesInvariant ==
    \A sym \in DOMAIN ac_files :
        LET ts == FileInstants(sym)
        IN  /\ Len(ts) > 0
            /\ \A k \in 1..(Len(ts) - 1) : ts[k] < ts[k + 1]
            /\ \A k \in 1..Len(ts) : InRegularSession(ts[k])

\* the loop is over; one symbol has a file of two bars, another has none
C19_Witness ==
    /\ ac_pc = "done"
    /\ \E sym \in DOMAIN ac_files : Len(ac_files[sym]) = 2
    /\ \E sym \in Range(TICKERS) : sym \notin DOMAIN ac_files

(***************************************************************************)
(* The order of the two cleaning steps                                     *)
(***************************************************************************)
\* row k meets a removal criterion of clean_extreme_outliers
OutlierRow(df, k) ==
    \/ ReturnOutlier(df, k) # {}
    \/ \E c \in volume_cols(df) : ~FLe(df.cols[c][k], VolumeCap)

\* the position whose cell ffill().bfill() copies into the missing cell k
\* of a column: the nearest present cell before k, else the nearest after
\* k; 0 when the column holds no present cell
FillSource(col, k) ==
    LET before == {j \in 1..(k - 1) : NotNa(col[j])}
        after  == {j \in (k + 1)..Len(col) : NotNa(col[j])}
    IN  IF before # {} THEN CHOOSE j \in before : \A i \in before : i <= j
        ELSE IF after # {} THEN CHOOSE j \in after : \A i \in after : j <= i
        ELSE 0

\* C20: every cell that handle_missing_data fills in the cleaned table is
\* copied from a row of the table clean_extreme_outliers returned, and that
\* row meets no removal criterion of clean_extreme_outliers.
C20_FillReadsNoRemovedRow ==
    pl_pc = "cleaned" =>
        \A r \in Runs : \A k \in 1..Len(pl_prev[r].index) :
            \A c \in DOMAIN pl_prev[r].cols :
                (/\ IsNaN(pl_prev[r].cols[c][k])
                 /\ pl_prev[r].index[k] \in Range(pl_df[r].index))
                => LET src == FillSource(pl_prev[r].cols[c], k)
                   IN  /\ src # 0
                       /\ Cell(pl_df[r], c, pl_prev[r].index[k])
                              = pl_prev[r].cols[c][src]
                       /\ ~OutlierRow(pl_prev[r], src)

\* a filled cell of row t whose neighbour t + 1 was removed as an outlier:
\* the value comes from row t + 2
C20_Witness ==
    /\ pl_pc = "cleaned"
    /\ \E r \in Runs : \E t \in Range(pl_df[r].index) :
          \E c \in DOMAIN pl_df[r].cols :
              /\ IsNaN(Cell(pl_prev[r], c, t))
              /\ (t + 1) \notin Range(pl_prev[r].index)
              /\ (t + 2) \in Range(pl_prev[r].index)
              /\ Cell(pl_df[r], c, t) = Cell(pl_prev[r], c, t + 2)

(***************************************************************************)
(* split_data: cutoffs given as plain dates                                *)
(***************************************************************************)
\* the three cutoffs are plain dates (no time of day), in calendar order
PlainDateCutoffs ==
    /\ sp_params.kind = "ok"
    /\ sp_params.TRAIN_DATE.minute = 0
    /\ sp_params.VALIDATION_DATE.minute = 0
    /\ sp_params.TEST_DATE.minute = 0
    /\ sp_params.TRAIN_DATE.day <= sp_params.VALIDATION_DATE.day
    /\ sp_params.VALIDATION_DATE.day <= sp_params.TEST_DATE.day

\* the bars of the table stamped on day d
BarsOn(d) ==
    {t \in Range(sp_df.index) :
        d * MinutesPerDay <= t /\ t < (d + 1) * MinutesPerDay}

\* C29: with plain-date cutoffs, a bar stamped on the train cutoff date is
\* not in train and falls in validation when validation ends later, a bar on
\* the validation cutoff date is not in validation and falls in test when
\* test ends later, and a bar on the test cutoff date is in no split.
C29_CutoffIsMidnight ==
    (sp_pc \notin {"call", "idle"} /\ PlainDateCutoffs) =>
        /\ \A t \in BarsOn(sp_params.TRAIN_DATE.day) :
              /\ t \notin Range(sp_train.index)
              /\ sp_params.TRAIN_DATE.day < sp_params.VALIDATION_DATE.day
                     => t \in Range(sp_val.index)
        /\ \A t \in BarsOn(sp_params.VALIDATION_DATE.day) :
              /\ t \notin Range(sp_val.index)
              /\ sp_params.VALIDATION_DATE.day < sp_params.TEST_DATE.day
                     => t \in Range(sp_test.index)
        /\ \A t \in BarsOn(sp_params.TEST_DATE.day) :
              /\ t \notin Range(sp_train.index)
              /\ t \notin Range(sp_val.index)
              /\ t \notin Range(sp_test.index)

\* a split that returned, with a bar on each of three distinct cutoff dates
C29_Witness ==
    /\ sp_pc = "returned"
    /\ PlainDateCutoffs
    /\ sp_params.TRAIN_DATE.day < sp_params.VALIDATION_DATE.day
    /\ sp_params.VALIDATION_DATE.day < sp_params.TEST_DATE.day
    /\ BarsOn(sp_params.TRAIN_DATE.day) # {}
    /\ BarsOn(sp_params.VALIDATION_DATE.day) # {}
    /\ BarsOn(sp_params.TEST_DATE.day) # {}

(***************************************************************************)
(* momentum_leader                                                         *)
(***************************************************************************)
\* the predictors whose return_5 at row i of df is present and not below
\* any other present return_5 of that row
TopPredictors(df, i) ==
    {sym \in TechSet :
        /\ NotNa(df.cols[TechCol[sym].return_5][i])
        /\ \A other \in TechSet :
              NotNa(df.cols[TechCol[other].return_5][i])
              => FLe(df.cols[TechCol[other].return_5][i],
                     df.cols[TechCol[sym].return_5][i])}

\* the first of them in the configured predictor order
FirstInOrder(S) ==
    TECH_SYMBOLS[CHOOSE k \in DOMAIN TECH_SYMBOLS :
                    /\ TECH_SYMBOLS[k] \in S
                    /\ \A j \in 1..(k - 1) : TECH_SYMBOLS[j] \notin S]

\* the symbol the claim names as leader of each row of df, "" where no
\* predictor has a return_5
ClaimedLeaders(df) ==
    Cells([i \in 1..Len(df.index) |->
              IF TopPredictors(df, i) = {} THEN ""
              ELSE FirstInOrder(TopPredictors(df, i))])

\* the code that stands for sym in a table led by the symbols S: the number
\* of leading symbols before it in alphabetical order
CodeAmong(S, sym) ==
    Num(Cardinality({c \in S : AlphaRank[c] < AlphaRank[sym]}))

\* C24: in the table engineer_cross_asset_features returns, the code of
\* momentum_leader at a row with some predictor return stands for the first
\* predictor, in the order NVDA, AAPL, MSFT, GOOGL, AMZN, among those with
\* the maximum return_5 of that row.
C24_LeaderIsFirstMaximum ==
    pl_pc = "cross" =>
        \A r \in Runs :
            LET L == ClaimedLeaders(pl_df[r])
                S == Range(L) \ {""}
            IN  \A i \in 1..Len(L) :
                    L[i] # "" =>
                        pl_df[r].cols["momentum_leader"][i] = CodeAmong(S, L[i])

\* a table in which all five predictors tie at one row (NVDA leads) and
\* MSFT alone has the maximum at another
C24_Witness ==
    /\ pl_pc = "cross"
    /\ \E r \in Runs :
          LET L == ClaimedLeaders(pl_df[r])
          IN  /\ \E i \in 1..Len(L) :
                    /\ TopPredictors(pl_df[r], i) = TechSet
                    /\ pl_df[r].cols["momentum_leader"][i]
                           = CodeAmong(Range(L) \ {""}, "NVDA")
              /\ \E j \in 1..Len(L) :
                    /\ TopPredictors(pl_df[r], j) = {"MSFT"}
                    /\ pl_df[r].cols["momentum_leader"][j]
                           = CodeAmong(Range(L) \ {""}, "MSFT")

\* C25: a predictor symbol has the same momentum_leader code in both runs:
\* rows led by the same symbol carry the same code, whatever leads at the
\* other rows of either table.
C25_LeaderCodeIsStable ==
    pl_pc = "cross" =>
        LET La == ClaimedLeaders(pl_df["a"])
            Lb == ClaimedLeaders(pl_df["b"])
        IN  \A i \in 1..Len(La) : \A j \in 1..Len(Lb) :
                (La[i] # "" /\ La[i] = Lb[j])
                => pl_df["a"].cols["momentum_leader"][i]
                       = pl_df["b"].cols["momentum_leader"][j]

FullHistoryFeatures(sym) ==
    processed([sym |-> sym, df |-> sort_index(RawTable(mn_files[sym]))])

\* C21: in the merged table, every per-symbol feature cell of an aligned
\* row equals the cell that the feature function gives at that timestamp
\* when it is applied to the symbol's whole raw file, bars outside the
\* common index included.
C21_FeaturesUseFullHistory ==
    mn_pc = "merged" =>
        \A sym \in DOMAIN mn_files :
            LET full == FullHistoryFeatures(sym)
            IN  \A c \in DOMAIN full.cols \cap DOMAIN mn_df.cols :
                    \A t \in Range(mn_df.index) :
                        Cell(mn_df, c, t) = Cell(full, c, t)

(***************************************************************************)
(* The stage functions and the table they are given                        *)
(***************************************************************************)
\* C23: once a stage of the pipeline has returned, the table object it was
\* given has the columns, index and values it had when the stage was called.
C23_StagesLeaveArgumentAlone ==
    pl_pc \in {"merged", "cross", "targets", "outliers_removed", "cleaned"}
        => pl_arg = pl_prev

(***************************************************************************)
(* engineer_cross_asset_features: missing returns                          *)
(***************************************************************************)
\* row i of the table given to the function has a missing return_5, QQQ's
\* or a predictor's
SomeReturnMissing(df, i) ==
    \E k \in DOMAIN CrossColumns : IsNaN(df.cols[CrossColumns[k]][i])

\* the 15-row window of sym's correlation ending at row i holds a missing
\* return in either series
WindowHasMissing(df, sym, i) ==
    \E j \in (i - 14)..i :
        j >= 1 /\ (IsNaN(df.cols["return_5"][j])
                      \/ IsNaN(df.cols[TechCol[sym].return_5][j]))

\* corr_QQQ_<sym>_15 is missing wherever its window holds a missing return
CorrPropagatesMissing ==
    pl_pc = "cross" =>
        \A r \in Runs : \A sym \in TechSet : \A i \in 1..Len(pl_prev[r].index) :
            WindowHasMissing(pl_prev[r], sym, i)
            => IsNaN(pl_df[r].cols[TechCol[sym].corr][i])

\* C26: in the table engineer_cross_asset_features returns,
\* relative_strength is missing at every row where QQQ's or any predictor's
\* return_5 is missing, and corr_QQQ_<sym>_15 is missing at every row whose
\* 15-row window holds a missing return in either series.
C26_MissingPropagates ==
    /\ pl_pc = "cross" =>
          \A r \in Runs : \A i \in 1..Len(pl_prev[r].index) :
              SomeReturnMissing(pl_prev[r], i)
              => IsNaN(pl_df[r].cols["relative_strength"][i])
    /\ CorrPropagatesMissing

(***************************************************************************)
(* Per-symbol features: warm-up                                            *)
(***************************************************************************)
\* the names of a symbol's return_w and volume_norm columns
ReturnColumn(sym, w) ==
    IF sym = "QQQ"
    THEN CASE w = 5 -> "return_5" [] w = 15 -> "return_15" [] w = 30 -> "return_30"
    ELSE CASE w = 5  -> TechCol[sym].return_5
           [] w = 15 -> TechCol[sym].return_15
           [] w = 30 -> TechCol[sym].return_30

VolumeColumn(sym) == IF sym = "QQQ" THEN "volume_norm" ELSE TechCol[sym].volume_norm

RECURSIVE VolumeSum(_, _, _)
VolumeSum(volume, lo, hi) ==
    IF lo > hi THEN 0
    ELSE IF lo = hi THEN volume[hi][1]
    ELSE LET mid == (lo + hi) \div 2
         IN  VolumeSum(volume, lo, mid) + VolumeSum(volume, mid + 1, hi)

\* C27: for a series of any length, with i counted from 0, return_w[i] is
\* missing exactly for i < w and is (close[i] - close[i-w]) / close[i-w]
\* otherwise; volume_norm[i] is missing exactly for i < 59 and is volume[i]
\* over the mean of the 60 volumes volume[i-59..i] otherwise.
C27_WarmUpIsMissing ==
    pl_pc = "merged" =>
        \A r \in Runs : \A sym \in SymbolSet :
            LET close  == pl_raw[r][sym].cols["close"]
                volume == pl_raw[r][sym].cols["volume"]
                norm   == pl_df[r].cols[VolumeColumn(sym)]
            IN  /\ Len(pl_df[r].index) = Len(close)
                /\ \A w \in {5, 15, 30} : \A k \in 1..Len(close) :
                      LET cell == pl_df[r].cols[ReturnColumn(sym, w)][k]
                      IN  IF k - 1 < w THEN IsNaN(cell)
                          ELSE cell = FDiv(FSub(close[k], close[k - w]), close[k - w])
                /\ \A k \in 1..Len(volume) :
                      IF k - 1 < 59 THEN IsNaN(norm[k])
                      ELSE norm[k] = FDiv(volume[k],
                                          Norm(VolumeSum(volume, k - 59, k), 60))

\* one run on series shorter than every window, the other on series long
\* enough for a volume_norm
C27_Witness ==
    /\ pl_pc = "merged"
    /\ \E r \in Runs :
          /\ Len(pl_df[r].index) = 1
          /\ IsNaN(pl_df[r].cols["return_5"][1])
    /\ \E r \in Runs :
          /\ Len(pl_df[r].index) = 60
          /\ NotNa(pl_df[r].cols["volume_norm"][60])
          /\ NotNa(pl_df[r].cols["return_30"][31])

(***************************************************************************)
(* The cleaner: zero realized volatility and missing cells                 *)
(***************************************************************************)
\* every column of row k other than realized_vol_10 holds a value
OthersPresent(df, k) ==
    \A c \in DOMAIN df.cols \ {"realized_vol_10"} : NotNa(df.cols[c][k])

\* clean_extreme_outliers keeps a row with a zero realized_vol_10 that meets
\* no removal criterion, and leaves the cell missing
ZeroIsReplaced ==
    pl_pc = "outliers_removed" =>
        \A r \in Runs : \A k \in 1..Len(pl_prev[r].index) :
            (pl_prev[r].cols["realized_vol_10"][k] = Num(0)
                 /\ ~OutlierRow(pl_prev[r], k))
            => /\ pl_prev[r].index[k] \in Range(pl_df[r].index)
               /\ IsNaN(Cell(pl_df[r], "realized_vol_10", pl_prev[r].index[k]))

\* the cleaned table holds no zero realized_vol_10
NoZeroVolatility ==
    pl_pc = "cleaned" =>
        \A r \in Runs : \A k \in 1..Len(pl_df[r].index) :
            pl_df[r].cols["realized_vol_10"][k] # Num(0)

====
